---- MODULE Spec2Model ----
(***************************************************************************)
(* Makanika: motorcycle repair-shop backend.                              *)
(* State machine of the job lifecycle (apps/jobs), the spare-parts ledger  *)
(* (apps/spare_parts) and the identity store they consult (apps/auth).     *)
(* One action per HTTP handler; each action covers the router function     *)
(* and the service method it calls, up to and including the commit.        *)
(***************************************************************************)
EXTENDS Integers, Sequences, FiniteSets, TLC

(***************************************************************************)
(* Bounds of the model.                                                    *)
(***************************************************************************)
MaxJobs == 2        \* rows in the jobs table
MaxSuffix == 2      \* the random 6-digit suffix is drawn from 000000..MaxSuffix
MaxTime == 2        \* the clock runs 1..MaxTime
MaxParts == 2       \* rows in the spare_parts table
MaxQty == 3         \* quantities and deltas stay within -MaxQty..MaxQty
MaxCreators == 2    \* concurrent create_job requests in flight
MaxRoleId == 4      \* role ids handed out stay within 1..MaxRoleId
MaxNewUsers == 1    \* users registered through POST /auth/users after the seed

(***************************************************************************)
(* Absent values.  Primary keys start at 1 and the clock at 1, so 0 stands *)
(* for a NULL foreign key or timestamp; NoText is a NULL text column or an *)
(* omitted optional string, distinct from the empty string "".             *)
(***************************************************************************)
NoId == 0
NoTime == 0
NoText == "<null>"
NoStatus == "<null-status>"

(***************************************************************************)
(* Text that is searched with ILIKE is a sequence of one-character strings.*)
(***************************************************************************)
Lower(c) ==
    CASE c = "A" -> "a"
      [] c = "B" -> "b"
      [] c = "J" -> "j"
      [] c = "O" -> "o"
      [] OTHER -> c

RECURSIVE LikeMatch(_, _)
LikeMatch(t, p) ==
    IF p = <<>> THEN t = <<>>
    ELSE IF Head(p) = "%"
         THEN LikeMatch(t, Tail(p)) \/ (t # <<>> /\ LikeMatch(Tail(t), p))
         ELSE /\ t # <<>>
              /\ (Head(p) = "_" \/ Lower(Head(t)) = Lower(Head(p)))
              /\ LikeMatch(Tail(t), Tail(p))

\* column.ilike(f"%{s}%")
ILike(t, s) == LikeMatch(t, <<"%">> \o s \o <<"%">>)

(***************************************************************************)
(* Job numbers: "JOB-" followed by six decimal digits.                     *)
(***************************************************************************)
DigitChars == <<"0", "1", "2", "3", "4", "5", "6", "7", "8", "9">>

SuffixLen == 6

RECURSIVE Digits(_, _)
\* the decimal digits of n, zero-padded on the left to width w
Digits(n, w) ==
    IF w = 0 THEN <<>>
    ELSE Append(Digits(n \div 10, w - 1), DigitChars[(n % 10) + 1])

JobNumber(n) == <<"J", "O", "B", "-">> \o Digits(n, SuffixLen)

(***************************************************************************)
(* Status vocabularies.  The request schemas accept CHECKED_IN; the enum   *)
(* of the jobs.status column does not have it.                             *)
(***************************************************************************)
ModelJobStatus == {"DIAGNOSING", "REPAIRING", "WAITING_FOR_PARTS", "READY", "COMPLETED"}

SchemaJobStatus == {"CHECKED_IN"} \cup ModelJobStatus

VARIABLES
    roles,      \* set of [id, name]
    users,      \* sequence of [email, role_id]; the index is the user id
    jobs,       \* sequence of job rows; the index is the job id
    parts,      \* sequence of spare-part rows; the index is the part id
    now,        \* the database clock read by func.now() / datetime.utcnow
    creators,   \* create_job requests in flight: [pc, caller, data, job_number]
    resp        \* outcome of the last request

vars == <<roles, users, jobs, parts, now, creators, resp>>

(***************************************************************************)
(* Identity store.                                                         *)
(***************************************************************************)
UserIds == 1..Len(users)

JobIds == 1..Len(jobs)

PartIds == 1..Len(parts)

\* user.role.name; users whose role row is gone have no role ("unknown"
\* stands for the None a handler finds in user.role)
RoleName(uid) ==
    IF \E r \in roles : r.id = users[uid].role_id
    THEN (CHOOSE r \in roles : r.id = users[uid].role_id).name
    ELSE "unknown"

RoleByName(name) == {r \in roles : r.name = name}

UserByEmail(email) == {u \in UserIds : users[u].email = email}

\* variant: the admin-only routes let mechanics through as well
IsAdmin_OrMechanic(uid) == RoleName(uid) \in {"admin", "mechanic"}

IsAdmin(uid) == RoleName(uid) = "admin"

IsStaff(uid) == RoleName(uid) \in {"admin", "mechanic"}

\* the answer of a handler whose own test of current_user.role.name turns the
\* caller away: 403, and for a caller whose role row is gone AttributeError
\* on None.name (500).  get_current_admin tests `not current_user.role` first
\* and answers 403 for both.
RoleGateOutcome(uid) ==
    IF RoleName(uid) = "unknown" THEN "internal" ELSE "forbidden"

(***************************************************************************)
(* Responses.  outcome is "ok" or the error kind surfaced to the caller:   *)
(* "not_found" (404), "forbidden" (403), "validation" (400), "internal"    *)
(* (500, including exceptions no handler catches).                         *)
(***************************************************************************)
\* customer_credentials = None in JobCreateResponse
NoCredentials == [email |-> NoText, password |-> <<>>, job_number |-> <<>>]

\* id is the row the request addressed.  caller, items and total are filled
\* in by the listings, credentials (whether customer_credentials is set) and
\* customer_credentials by create_job, quantity_change and before
\* (the quantity the handler read) by update_stock, alerts by the low-stock
\* listing, stats by get_job_stats.
Response(op, outcome, id) ==
    [op |-> op, outcome |-> outcome, id |-> id, caller |-> NoId,
     items |-> <<>>, total |-> 0, credentials |-> FALSE,
     customer_credentials |-> NoCredentials,
     quantity_change |-> 0, before |-> 0, alerts |-> {}, stats |-> <<>>]

NoResponse == Response("none", "ok", NoId)

(***************************************************************************)
(* Jobs table.                                                             *)
(***************************************************************************)
\* A row whose stored status is not a name of the column's enum cannot be
\* loaded: the ORM raises LookupError while converting the row.
Readable(j) == j.status \in ModelJobStatus \cup {NoStatus}

JobNumbersInStore == {jobs[i].job_number : i \in JobIds}

\* if x: for Optional[str]
Truthy(text) == text \notin {NoText, ""}

(***************************************************************************)
(* create_customer_account(job, job_number): the provisioning step of      *)
(* create_job, evaluated against the users table `us`.  Yields the users   *)
(* table after the flush, the linked user id and the generated password    *)
(* (empty when none was generated; pw is the password the generator draws).*)
(* raised = TRUE when the customer role is missing.                       *)
(***************************************************************************)
\* generate_random_password(length=8): secrets.choice drew character c each
\* time
PasswordLength == 8

GenerateRandomPassword(c) == [i \in 1..PasswordLength |-> c]

\* variant: the password is stored as it is
GetPasswordHash_Plaintext(password) == password

\* pwd_context.hash: the scheme marker followed by the digest, which is of
\* other characters than the password
GetPasswordHash(password) ==
    <<"$2b$">> \o [i \in 1..Len(password) |->
                      CASE password[i] = "a" -> "x"
                        [] password[i] = "7" -> "y"
                        [] OTHER -> "z"]

\* variant: an account is created and credentials are issued even when a user
\* with the email exists
CreateCustomerAccount_AlwaysNew(us, data, pw) ==
    LET customer_role == RoleByName("customer")
    IN  IF customer_role = {}
        THEN [users |-> us, customer_user |-> NoId, password |-> <<>>, raised |-> TRUE]
        ELSE [users |-> Append(us, [email |-> data.customer_email,
                                    hashed_password |-> GetPasswordHash(pw),
                                    role_id |-> (CHOOSE r \in customer_role : TRUE).id]),
              customer_user |-> Len(us) + 1, password |-> pw, raised |-> FALSE]

CreateCustomerAccount(us, data, pw) ==
    LET existing == {u \in 1..Len(us) : us[u].email = data.customer_email}
        customer_role == RoleByName("customer")
    IN  IF existing # {}
        THEN [users |-> us, customer_user |-> CHOOSE u \in existing : TRUE,
              password |-> <<>>, raised |-> FALSE]
        ELSE IF customer_role = {}
        THEN [users |-> us, customer_user |-> NoId, password |-> <<>>, raised |-> TRUE]
        ELSE [users |-> Append(us, [email |-> data.customer_email,
                                    hashed_password |-> GetPasswordHash(pw),
                                    role_id |-> (CHOOSE r \in customer_role : TRUE).id]),
              customer_user |-> Len(us) + 1, password |-> pw, raised |-> FALSE]

\* create_job lines 145-154: provisioning is attempted only when requested and
\* an email is supplied; any exception is logged and creation continues
\* without an account.
Provision(us, data, pw) ==
    IF data.create_customer_account /\ data.customer_email # NoText
    THEN LET r == CreateCustomerAccount(us, data, pw)
         IN  IF r.raised
             THEN [users |-> us, customer_user |-> NoId, password |-> <<>>]
             ELSE [users |-> r.users, customer_user |-> r.customer_user,
                   password |-> r.password]
    ELSE [users |-> us, customer_user |-> NoId, password |-> <<>>]

\* variant: the row is attributed to the provisioned customer
NewJob_CreatedByCustomer(data, job_number, created_by, customer_user) ==
    [job_number |-> job_number,
     customer_name |-> data.customer_name,
     customer_phone |-> data.customer_phone,
     customer_email |-> data.customer_email,
     vehicle_name |-> data.vehicle_name,
     motorcycle_numberplate |-> data.motorcycle_numberplate,
     problem_description |-> data.problem_description,
     diagnosis_notes |-> NoText,
     repair_notes |-> NoText,
     actual_cost |-> 0,
     status |-> "DIAGNOSING",
     assigned_mechanic_id |-> NoId,
     created_by_id |-> IF customer_user # NoId THEN customer_user ELSE created_by,
     customer_user_id |-> customer_user,
     created_at |-> now,
     completed_at |-> NoTime]

\* create_job lines 173-180: the one-time credentials of a new account
Credentials(p, job_number) ==
    IF p.customer_user # NoId /\ p.password # <<>>
    THEN [email |-> p.users[p.customer_user].email, password |-> p.password,
          job_number |-> job_number]
    ELSE NoCredentials

\* the row create_job inserts (column defaults filled in)
NewJob(data, job_number, created_by, customer_user) ==
    [job_number |-> job_number,
     customer_name |-> data.customer_name,
     customer_phone |-> data.customer_phone,
     customer_email |-> data.customer_email,
     vehicle_name |-> data.vehicle_name,
     motorcycle_numberplate |-> data.motorcycle_numberplate,
     problem_description |-> data.problem_description,
     diagnosis_notes |-> NoText,
     repair_notes |-> NoText,
     actual_cost |-> 0,
     status |-> "DIAGNOSING",
     assigned_mechanic_id |-> NoId,
     created_by_id |-> created_by,
     customer_user_id |-> customer_user,
     created_at |-> now,
     completed_at |-> NoTime]

(***************************************************************************)
(* POST /jobs/ served without interleaving.                                *)
(*   - callers other than admin and mechanic get 403;                      *)
(*   - generate_job_number loops until it draws a number that no stored    *)
(*     job has, so it returns some number n not in the store;              *)
(*   - the Job constructor receives estimated_completion, which is not an  *)
(*     attribute of Job: a declarative base that rejects unknown keywords  *)
(*     raises TypeError there, the session is closed and the flushed user  *)
(*     is rolled back.  Both the rejecting and the accepting constructor   *)
(*     are kept as outcomes.                                               *)
(***************************************************************************)
CreateJobForbidden(caller) ==
    /\ ~IsStaff(caller)
    /\ resp' = Response("create_job", RoleGateOutcome(caller), NoId)
    /\ UNCHANGED <<roles, users, jobs, parts, now, creators>>

CreateJobTypeError(caller) ==
    /\ IsStaff(caller)
    /\ resp' = Response("create_job", "internal", NoId)
    /\ UNCHANGED <<roles, users, jobs, parts, now, creators>>

CreateJobOk(caller, data, n) ==
    /\ IsStaff(caller)
    /\ Len(jobs) < MaxJobs
    /\ JobNumber(n) \notin JobNumbersInStore
    /\ \E c \in {"a", "7"} :
          LET p == Provision(users, data, GenerateRandomPassword(c))
              cr == Credentials(p, JobNumber(n))
          IN  /\ users' = p.users
              /\ jobs' = Append(jobs, NewJob(data, JobNumber(n), caller, p.customer_user))
              /\ resp' = [Response("create_job", "ok", Len(jobs) + 1)
                             EXCEPT !.credentials = (cr # NoCredentials),
                                    !.customer_credentials = cr]
    /\ UNCHANGED <<roles, parts, now, creators>>

CreateJob(caller, data, n) ==
    \/ CreateJobForbidden(caller)
    \/ CreateJobTypeError(caller)
    \/ CreateJobOk(caller, data, n)

(***************************************************************************)
(* POST /jobs/ served concurrently: each request first generates its       *)
(* number against the committed store (CreatorGenerate), and later builds  *)
(* the row and commits (CreatorCommit).  Another request may commit in     *)
(* between.  jobs.job_number is UNIQUE, so a commit of a number that is    *)
(* by then in the table raises IntegrityError, which create_job does not   *)
(* catch; the request's session is closed and nothing of it is persisted.  *)
(***************************************************************************)
IdleCreator == [pc |-> "idle", caller |-> NoId, data |-> NoText, job_number |-> <<>>]

CreatorGenerate(p, caller, data, n) ==
    /\ creators[p].pc = "idle"
    /\ IsStaff(caller)
    /\ JobNumber(n) \notin JobNumbersInStore
    /\ creators' = [creators EXCEPT ![p] = [pc |-> "generated", caller |-> caller,
                                            data |-> data, job_number |-> JobNumber(n)]]
    /\ UNCHANGED <<roles, users, jobs, parts, now, resp>>

\* variant: the flushed user row outlives the failed commit
CreatorCommit_FlushPersists(p) ==
    LET c == creators[p]
    IN  /\ c.pc = "generated"
        /\ \/ /\ creators' = [creators EXCEPT ![p].pc = "type_error"]
              /\ resp' = Response("create_job", "internal", NoId)
              /\ UNCHANGED <<users, jobs>>
           \/ /\ c.job_number \in JobNumbersInStore
              /\ creators' = [creators EXCEPT ![p].pc = "integrity_error"]
              /\ resp' = Response("create_job", "internal", NoId)
              /\ \E ch \in {"a", "7"} :
                    users' = Provision(users, c.data, GenerateRandomPassword(ch)).users
              /\ UNCHANGED jobs
           \/ /\ c.job_number \notin JobNumbersInStore
              /\ Len(jobs) < MaxJobs
              /\ creators' = [creators EXCEPT ![p].pc = "done"]
              /\ \E ch \in {"a", "7"} :
                    LET pv == Provision(users, c.data, GenerateRandomPassword(ch))
                        cr == Credentials(pv, c.job_number)
                    IN  /\ users' = pv.users
                        /\ jobs' = Append(jobs, NewJob(c.data, c.job_number, c.caller,
                                                       pv.customer_user))
                        /\ resp' = [Response("create_job", "ok", Len(jobs) + 1)
                                       EXCEPT !.credentials = (cr # NoCredentials),
                                              !.customer_credentials = cr]
        /\ UNCHANGED <<roles, parts, now>>

CreatorCommit(p) ==
    LET c == creators[p]
    IN  /\ c.pc = "generated"
        /\ \/ /\ creators' = [creators EXCEPT ![p].pc = "type_error"]
              /\ resp' = Response("create_job", "internal", NoId)
              /\ UNCHANGED <<users, jobs>>
           \/ /\ c.job_number \in JobNumbersInStore
              /\ creators' = [creators EXCEPT ![p].pc = "integrity_error"]
              /\ resp' = Response("create_job", "internal", NoId)
              /\ UNCHANGED <<users, jobs>>
           \/ /\ c.job_number \notin JobNumbersInStore
              /\ Len(jobs) < MaxJobs
              /\ creators' = [creators EXCEPT ![p].pc = "done"]
              /\ \E ch \in {"a", "7"} :
                    LET pv == Provision(users, c.data, GenerateRandomPassword(ch))
                        cr == Credentials(pv, c.job_number)
                    IN  /\ users' = pv.users
                        /\ jobs' = Append(jobs, NewJob(c.data, c.job_number, c.caller,
                                                       pv.customer_user))
                        /\ resp' = [Response("create_job", "ok", Len(jobs) + 1)
                                       EXCEPT !.credentials = (cr # NoCredentials),
                                              !.customer_credentials = cr]
        /\ UNCHANGED <<roles, parts, now>>

(***************************************************************************)
(* Commit of a changed job row.  Two things the handlers do not validate   *)
(* are left to the database: a status outside the column's enum and an     *)
(* assigned_mechanic_id without a users row.  A database with a native     *)
(* enum and enforced foreign keys rejects the commit; SQLite (the default  *)
(* DATABASE_URL) stores the row, after which refresh cannot load it when   *)
(* the status is not in the enum.  Either way the caller gets 500 for the  *)
(* bad status.                                                             *)
(***************************************************************************)
CommitJob(op, job_id, row) ==
    LET badStatus == ~Readable(row)
        dangling == row.assigned_mechanic_id # jobs[job_id].assigned_mechanic_id
                    /\ row.assigned_mechanic_id \notin UserIds \cup {NoId}
    IN  \/ /\ jobs' = [jobs EXCEPT ![job_id] = row]
           /\ resp' = Response(op, IF badStatus THEN "internal" ELSE "ok", job_id)
        \/ /\ badStatus \/ dangling
           /\ jobs' = jobs
           /\ resp' = Response(op, "internal", job_id)

\* get_job(job_id) and the 404 / LookupError exits shared by the writers
Loaded(job_id) == job_id \in JobIds /\ Readable(jobs[job_id])

LoadFails(op, job_id) ==
    /\ ~Loaded(job_id)
    /\ resp' = Response(op, IF job_id \notin JobIds THEN "not_found" ELSE "internal", job_id)
    /\ UNCHANGED jobs

Forbidden(op, job_id) ==
    /\ resp' = Response(op, "forbidden", job_id)
    /\ UNCHANGED jobs

(***************************************************************************)
(* PUT /jobs/{job_id} (admin only).  upd is the dictionary of the fields   *)
(* the request set (model_dump(exclude_unset=True)).                       *)
(***************************************************************************)
Put(row, upd, f) == IF f \in DOMAIN upd THEN upd[f] ELSE row[f]

\* variant: any PUT that carries a status stamps completed_at
UpdatedJob_StampAnyStatus(row, upd) ==
    [row EXCEPT
        !.customer_name = Put(row, upd, "customer_name"),
        !.customer_phone = Put(row, upd, "customer_phone"),
        !.diagnosis_notes = Put(row, upd, "diagnosis_notes"),
        !.repair_notes = Put(row, upd, "repair_notes"),
        !.actual_cost = Put(row, upd, "actual_cost"),
        !.status = Put(row, upd, "status"),
        !.assigned_mechanic_id = Put(row, upd, "assigned_mechanic_id"),
        !.completed_at = IF "status" \in DOMAIN upd THEN now ELSE row.completed_at]

UpdatedJob(row, upd) ==
    [row EXCEPT
        !.customer_name = Put(row, upd, "customer_name"),
        !.customer_phone = Put(row, upd, "customer_phone"),
        !.diagnosis_notes = Put(row, upd, "diagnosis_notes"),
        !.repair_notes = Put(row, upd, "repair_notes"),
        !.actual_cost = Put(row, upd, "actual_cost"),
        !.status = Put(row, upd, "status"),
        !.assigned_mechanic_id = Put(row, upd, "assigned_mechanic_id"),
        !.completed_at = IF "status" \in DOMAIN upd /\ upd["status"] = "COMPLETED"
                         THEN now ELSE row.completed_at]

UpdateJob(caller, job_id, upd) ==
    /\ \/ /\ ~IsAdmin(caller)
          /\ Forbidden("update_job", job_id)
       \/ /\ IsAdmin(caller)
          /\ LoadFails("update_job", job_id)
       \/ /\ IsAdmin(caller)
          /\ Loaded(job_id)
          /\ CommitJob("update_job", job_id, UpdatedJob(jobs[job_id], upd))
    /\ UNCHANGED <<roles, users, parts, now, creators>>

(***************************************************************************)
(* PATCH /jobs/{job_id}/status (admin or mechanic).                        *)
(***************************************************************************)
\* variant: an already completed job keeps its first timestamp
StatusUpdatedJob_KeepFirst(row, status, notes) ==
    [row EXCEPT
        !.diagnosis_notes = IF status = "DIAGNOSING" /\ Truthy(notes)
                            THEN notes ELSE row.diagnosis_notes,
        !.repair_notes = IF status = "REPAIRING" /\ Truthy(notes)
                         THEN notes ELSE row.repair_notes,
        !.status = status,
        !.completed_at = IF status = "COMPLETED" /\ row.completed_at = NoTime
                         THEN now ELSE row.completed_at]

\* variant: the notes go to repair_notes whatever the requested status
StatusUpdatedJob_NotesAnyStatus(row, status, notes) ==
    [row EXCEPT
        !.diagnosis_notes = IF status = "DIAGNOSING" /\ Truthy(notes)
                            THEN notes ELSE row.diagnosis_notes,
        !.repair_notes = IF status # "DIAGNOSING" /\ Truthy(notes)
                         THEN notes ELSE row.repair_notes,
        !.status = status,
        !.completed_at = IF status = "COMPLETED" THEN now ELSE row.completed_at]

StatusUpdatedJob(row, status, notes) ==
    [row EXCEPT
        !.diagnosis_notes = IF status = "DIAGNOSING" /\ Truthy(notes)
                            THEN notes ELSE row.diagnosis_notes,
        !.repair_notes = IF status = "REPAIRING" /\ Truthy(notes)
                         THEN notes ELSE row.repair_notes,
        !.status = status,
        !.completed_at = IF status = "COMPLETED" THEN now ELSE row.completed_at]

UpdateJobStatus(caller, job_id, status, notes) ==
    /\ \/ /\ ~IsStaff(caller)
          /\ resp' = Response("update_job_status", RoleGateOutcome(caller), job_id)
          /\ UNCHANGED jobs
       \/ /\ IsStaff(caller)
          /\ LoadFails("update_job_status", job_id)
       \/ /\ IsStaff(caller)
          /\ Loaded(job_id)
          /\ CommitJob("update_job_status", job_id,
                       StatusUpdatedJob(jobs[job_id], status, notes))
    /\ UNCHANGED <<roles, users, parts, now, creators>>

(***************************************************************************)
(* PATCH /jobs/{job_id}/cost (admin or mechanic).                          *)
(***************************************************************************)
CostUpdatedJob(row, actual_cost, repair_notes) ==
    [row EXCEPT
        !.actual_cost = actual_cost,
        !.repair_notes = IF Truthy(repair_notes) THEN repair_notes ELSE row.repair_notes]

UpdateJobCost(caller, job_id, actual_cost, repair_notes) ==
    /\ \/ /\ ~IsStaff(caller)
          /\ resp' = Response("update_job_cost", RoleGateOutcome(caller), job_id)
          /\ UNCHANGED jobs
       \/ /\ IsStaff(caller)
          /\ LoadFails("update_job_cost", job_id)
       \/ /\ IsStaff(caller)
          /\ Loaded(job_id)
          /\ CommitJob("update_job_cost", job_id,
                       CostUpdatedJob(jobs[job_id], actual_cost, repair_notes))
    /\ UNCHANGED <<roles, users, parts, now, creators>>

(***************************************************************************)
(* PATCH /jobs/{job_id}/assign (admin only).                               *)
(***************************************************************************)
\* the users row with this id whose role is named "mechanic", if any
FindMechanic(uid) == {u \in UserIds : u = uid /\ RoleName(u) = "mechanic"}

AssignMechanic(caller, job_id, mechanic_id) ==
    /\ \/ /\ ~IsAdmin(caller)
          /\ Forbidden("assign_mechanic", job_id)
       \/ /\ IsAdmin(caller)
          /\ LoadFails("assign_mechanic", job_id)
       \/ /\ IsAdmin(caller)
          /\ Loaded(job_id)
          /\ FindMechanic(mechanic_id) = {}
          /\ resp' = Response("assign_mechanic", "validation", job_id)
          /\ UNCHANGED jobs
       \/ /\ IsAdmin(caller)
          /\ Loaded(job_id)
          /\ FindMechanic(mechanic_id) # {}
          /\ CommitJob("assign_mechanic", job_id,
                       [jobs[job_id] EXCEPT !.assigned_mechanic_id = mechanic_id])
    /\ UNCHANGED <<roles, users, parts, now, creators>>

\* time passes between requests
Tick ==
    /\ now < MaxTime
    /\ now' = now + 1
    /\ UNCHANGED <<roles, users, jobs, parts, creators, resp>>

(***************************************************************************)
(* GET /jobs/ and GET /jobs/customer/my-jobs.                              *)
(***************************************************************************)
\* job_to_response: the columns of the projection that the checks read
JobToResponse(j) ==
    [id |-> j,
     job_number |-> jobs[j].job_number,
     customer_phone |-> jobs[j].customer_phone,
     status |-> jobs[j].status,
     assigned_mechanic_id |-> jobs[j].assigned_mechanic_id,
     created_by_id |-> jobs[j].created_by_id,
     customer_user_id |-> jobs[j].customer_user_id]

NoFilters == [status |-> NoStatus, search |-> <<>>, customer_phone |-> <<>>, numberplate |-> <<>>]

\* the filters of get_jobs; an absent or empty argument adds no condition
FilterMatch(row, f) ==
    /\ f.status # NoStatus => row.status = f.status
    /\ f.search # <<>> =>
          \/ ILike(row.customer_name, f.search)
          \/ ILike(row.job_number, f.search)
          \/ ILike(row.vehicle_name, f.search)
          \/ ILike(row.problem_description, f.search)
    /\ f.customer_phone # <<>> => ILike(row.customer_phone, f.customer_phone)
    /\ f.numberplate # <<>> => ILike(row.motorcycle_numberplate, f.numberplate)

\* variant: a customer sees the jobs linked to them and the jobs linked to nobody
RoleMatch_CustomerSeesUnlinked(row, user_id, user_role) ==
    IF user_role = "customer" /\ user_id # NoId
    THEN row.customer_user_id \in {user_id, NoId}
    ELSE IF user_role = "mechanic" /\ user_id # NoId
    THEN row.assigned_mechanic_id = user_id \/ row.assigned_mechanic_id = NoId
    ELSE TRUE

\* variant: a mechanic sees every assigned job
RoleMatch_MechanicSeesAll(row, user_id, user_role) ==
    IF user_role = "customer" /\ user_id # NoId
    THEN row.customer_user_id = user_id
    ELSE TRUE

\* access control of get_jobs
RoleMatch(row, user_id, user_role) ==
    IF user_role = "customer" /\ user_id # NoId
    THEN row.customer_user_id = user_id
    ELSE IF user_role = "mechanic" /\ user_id # NoId
    THEN row.assigned_mechanic_id = user_id \/ row.assigned_mechanic_id = NoId
    ELSE TRUE

MatchingJobs(f, user_id, user_role) ==
    {j \in JobIds : FilterMatch(jobs[j], f) /\ RoleMatch(jobs[j], user_id, user_role)}

\* ORDER BY created_at DESC; rows with equal created_at come in any order
Orders(S) ==
    {o \in [1..Cardinality(S) -> S] :
        /\ \A i, k \in 1..Cardinality(S) : i # k => o[i] # o[k]
        /\ \A i, k \in 1..Cardinality(S) : i < k => jobs[o[i]].created_at >= jobs[o[k]].created_at}

\* OFFSET skip LIMIT limit
Page(o, skip, limit) ==
    SubSeq(o, skip + 1, IF skip + limit < Len(o) THEN skip + limit ELSE Len(o))

\* get_jobs: (rows of the page, total); the rows of the page are loaded
ListedOk(page) == \A i \in 1..Len(page) : Readable(jobs[page[i]])

\* JobListResponse validates each item against JobResponse, whose status is
\* a required JobStatus
ValidatedOk(page) == \A i \in 1..Len(page) : jobs[page[i]].status # NoStatus

\* the router passes current_user.role.name: a caller without a role row is
\* answered 500
GetJobs(caller, f, skip, limit) ==
    /\ \E o \in Orders(MatchingJobs(f, caller, RoleName(caller))) :
          LET page == Page(o, skip, limit)
          IN  resp' = IF RoleName(caller) # "unknown" /\ ListedOk(page) /\ ValidatedOk(page)
                      THEN [Response("get_jobs", "ok", NoId) EXCEPT
                               !.caller = caller,
                               !.items = [i \in 1..Len(page) |-> JobToResponse(page[i])],
                               !.total = Len(o)]
                      ELSE [Response("get_jobs", "internal", NoId) EXCEPT !.caller = caller]
    /\ UNCHANGED <<roles, users, jobs, parts, now, creators>>

\* the default page of get_jobs
DefaultLimit == 100

GetMyJobs(caller) ==
    /\ \/ /\ RoleName(caller) # "customer"
          /\ resp' = [Response("get_my_jobs", RoleGateOutcome(caller), NoId) EXCEPT !.caller = caller]
       \/ /\ RoleName(caller) = "customer"
          /\ \E o \in Orders(MatchingJobs(NoFilters, caller, "customer")) :
                LET page == Page(o, 0, DefaultLimit)
                IN  resp' = IF ListedOk(page)
                            THEN [Response("get_my_jobs", "ok", NoId) EXCEPT
                                     !.caller = caller,
                                     !.items = [i \in 1..Len(page) |-> JobToResponse(page[i])]]
                            ELSE [Response("get_my_jobs", "internal", NoId)
                                     EXCEPT !.caller = caller]
    /\ UNCHANGED <<roles, users, jobs, parts, now, creators>>

(***************************************************************************)
(* GET /jobs/search/by-phone (no authentication).                          *)
(***************************************************************************)
\* ''.join(filter(str.isdigit, customer_phone))
DigitsOnly(customer_phone) ==
    SelectSeq(customer_phone, LAMBDA c : \E i \in 1..Len(DigitChars) : DigitChars[i] = c)

\* search_jobs_by_phone lines 66-74: the query without spaces and dashes,
\* and its local or 256-prefixed counterpart
PhonesToSearch(phone) ==
    LET clean_phone == SelectSeq(phone, LAMBDA c : c \notin {" ", "-"})
        StartsWith(pre) == Len(clean_phone) >= Len(pre)
                           /\ SubSeq(clean_phone, 1, Len(pre)) = pre
        From(i) == SubSeq(clean_phone, i, Len(clean_phone))
    IN  IF StartsWith(<<"0">>) THEN <<clean_phone, <<"2", "5", "6">> \o From(2)>>
        ELSE IF StartsWith(<<"2", "5", "6">>) THEN <<clean_phone, <<"0">> \o From(4)>>
        ELSE IF StartsWith(<<"+", "2", "5", "6">>) THEN <<clean_phone, <<"0">> \o From(5)>>
        ELSE <<clean_phone>>

\* get_jobs_public: the rows whose phone is ILIKE the query or its digits
GetJobsPublic(customer_phone) ==
    {j \in JobIds : \/ ILike(jobs[j].customer_phone, customer_phone)
                    \/ ILike(jobs[j].customer_phone, DigitsOnly(customer_phone))}

\* the lists of the variants, each newest first, concatenated without
\* duplicates; Query(min_length=1) refuses the empty query
SearchJobsByPhone(phone) ==
    /\ IF phone = <<>>
       THEN resp' = Response("search_jobs_by_phone", "validation", NoId)
       ELSE LET ps == PhonesToSearch(phone)
                found == UNION {GetJobsPublic(ps[i]) : i \in 1..Len(ps)}
            IN  IF \E j \in found : ~Readable(jobs[j])
                THEN resp' = Response("search_jobs_by_phone", "internal", NoId)
                ELSE \E o1 \in Orders(GetJobsPublic(ps[1])) :
                     \E o2 \in Orders(found \ GetJobsPublic(ps[1])) :
                        resp' = [Response("search_jobs_by_phone", "ok", NoId) EXCEPT
                                    !.items = [i \in 1..Len(o1 \o o2) |->
                                                  JobToResponse((o1 \o o2)[i])]]
    /\ UNCHANGED <<roles, users, jobs, parts, now, creators>>

(***************************************************************************)
(* GET /jobs/{job_id} and GET /jobs/number/{job_number}.                   *)
(***************************************************************************)
\* the outcome of the lookup of row `found` (a set with the row's id, empty
\* when there is none) for the caller: 404, then LookupError on a row that
\* cannot be loaded, then the customer's ownership check
ReadOutcome(caller, found) ==
    IF found = {} THEN "not_found"
    ELSE LET j == CHOOSE x \in found : TRUE
         IN  IF ~Readable(jobs[j]) \/ RoleName(caller) = "unknown" THEN "internal"
             ELSE IF RoleName(caller) = "customer" /\ jobs[j].customer_user_id # caller
             THEN "forbidden"
             ELSE "ok"

\* get_job_by_number
JobsByNumber(job_number) == {j \in JobIds : jobs[j].job_number = job_number}

GetJob(caller, job_id) ==
    /\ resp' = [Response("get_job", ReadOutcome(caller, {job_id} \cap JobIds), job_id)
                   EXCEPT !.caller = caller]
    /\ UNCHANGED <<roles, users, jobs, parts, now, creators>>

GetJobByNumber(caller, job_number) ==
    /\ LET found == JobsByNumber(job_number)
       IN  resp' = [Response("get_job_by_number", ReadOutcome(caller, found),
                             IF found = {} THEN NoId ELSE CHOOSE x \in found : TRUE)
                       EXCEPT !.caller = caller]
    /\ UNCHANGED <<roles, users, jobs, parts, now, creators>>

(***************************************************************************)
(* GET /jobs/stats/summary.                                                *)
(***************************************************************************)
\* access control of get_job_stats
StatsRoleMatch(row, user_id, user_role) ==
    IF user_role = "customer" /\ user_id # NoId
    THEN row.customer_user_id = user_id
    ELSE IF user_role = "mechanic" /\ user_id # NoId
    THEN row.assigned_mechanic_id = user_id
    ELSE TRUE

StatsJobs(user_id, user_role) ==
    {j \in JobIds : StatsRoleMatch(jobs[j], user_id, user_role)}

\* the keys stats_dict starts with
StatsKeys == {"diagnosing", "repairing", "waiting_for_parts", "ready", "completed"}

\* the fields of JobStatsResponse besides total_jobs, all defaulting to 0
StatsFields == {"checked_in"} \cup StatsKeys

\* the rows of the GROUP BY: (status, count) for each status among the jobs
StatsGroups(S) == {st \in ModelJobStatus : \E j \in S : jobs[j].status = st}

\* stats_dict after the loop: the start keys at 0, the member's value of
\* each status group (status.value, the upper-case name) at its count
StatsDict(S) ==
    [k \in {"total_jobs"} \cup StatsKeys \cup StatsGroups(S) |->
        IF k = "total_jobs" THEN Cardinality(S)
        ELSE IF k \in StatsGroups(S) THEN Cardinality({j \in S : jobs[j].status = k})
        ELSE 0]

\* JobStatsResponse(**stats): its fields are read from the dict, a field
\* without a key takes its default 0, keys that are no field are ignored
JobStatsResponse(d) ==
    [f \in {"total_jobs"} \cup StatsFields |-> IF f \in DOMAIN d THEN d[f] ELSE 0]

\* a stored status that is no member of the column's enum fails the load, a
\* NULL status has no .value; the router passes current_user.role.name, a
\* caller without a role row is answered 500
GetJobStats(caller) ==
    /\ LET S == StatsJobs(caller, RoleName(caller))
       IN  resp' = IF RoleName(caller) # "unknown" /\ \A j \in S : jobs[j].status \in ModelJobStatus
                   THEN [Response("get_job_stats", "ok", NoId) EXCEPT
                            !.caller = caller,
                            !.stats = JobStatsResponse(StatsDict(S))]
                   ELSE [Response("get_job_stats", "internal", NoId) EXCEPT
                            !.caller = caller]
    /\ UNCHANGED <<roles, users, jobs, parts, now, creators>>

(***************************************************************************)
(* Spare parts (apps/spare_parts).  A row keeps the columns the handlers   *)
(* decide on: sku, quantity_in_stock, minimum_stock_level, is_active.      *)
(***************************************************************************)
\* str.upper() on the SKUs of the model
Upper(sku) ==
    CASE sku = "ab" -> "AB"
      [] sku = "Ab" -> "AB"
      [] OTHER -> sku

\* get_spare_part_by_sku
PartsBySku(sku) == {i \in PartIds : parts[i].sku = Upper(sku)}

\* Field(..., ge=0) on quantity_in_stock and minimum_stock_level
FieldsValid(d) ==
    /\ "quantity_in_stock" \in DOMAIN d => d["quantity_in_stock"] >= 0
    /\ "minimum_stock_level" \in DOMAIN d => d["minimum_stock_level"] >= 0

\* spare_parts.sku is UNIQUE: the commit of row i with this sku fails when
\* another row has exactly the same sku
SkuClash(i, sku) == sku # NoText /\ \E k \in PartIds : k # i /\ parts[k].sku = sku

\* POST /spare_parts/ (admin only)
CreateSparePart(caller, d) ==
    /\ \/ /\ ~IsAdmin(caller)
          /\ resp' = Response("create_spare_part", "forbidden", NoId)
          /\ UNCHANGED parts
       \/ /\ IsAdmin(caller)
          /\ ~FieldsValid(d) \/ (Truthy(d.sku) /\ PartsBySku(d.sku) # {})
          /\ resp' = Response("create_spare_part", "validation", NoId)
          /\ UNCHANGED parts
       \/ /\ IsAdmin(caller)
          /\ FieldsValid(d)
          /\ ~(Truthy(d.sku) /\ PartsBySku(d.sku) # {})
          /\ SkuClash(NoId, d.sku)
          /\ resp' = Response("create_spare_part", "internal", NoId)
          /\ UNCHANGED parts
       \/ /\ IsAdmin(caller)
          /\ FieldsValid(d)
          /\ ~(Truthy(d.sku) /\ PartsBySku(d.sku) # {})
          /\ ~SkuClash(NoId, d.sku)
          /\ Len(parts) < MaxParts
          /\ parts' = Append(parts, [sku |-> d.sku,
                                     quantity_in_stock |-> d.quantity_in_stock,
                                     minimum_stock_level |-> d.minimum_stock_level,
                                     is_active |-> TRUE])
          /\ resp' = Response("create_spare_part", "ok", Len(parts) + 1)
    /\ UNCHANGED <<roles, users, jobs, now, creators>>

\* SparePartUpdate.sku_uppercase, then setattr for every field that was set
UpdatedPart(row, upd) ==
    [row EXCEPT
        !.sku = IF "sku" \in DOMAIN upd
                THEN (IF upd["sku"] = NoText THEN NoText ELSE Upper(upd["sku"]))
                ELSE row.sku,
        !.quantity_in_stock = Put(row, upd, "quantity_in_stock"),
        !.minimum_stock_level = Put(row, upd, "minimum_stock_level"),
        !.is_active = Put(row, upd, "is_active")]

\* PUT /spare_parts/{id} (admin only)
UpdateSparePart(caller, id, upd) ==
    /\ \/ /\ ~IsAdmin(caller)
          /\ resp' = Response("update_spare_part", "forbidden", id)
          /\ UNCHANGED parts
       \/ /\ IsAdmin(caller)
          /\ ~FieldsValid(upd)
          /\ resp' = Response("update_spare_part", "validation", id)
          /\ UNCHANGED parts
       \/ /\ IsAdmin(caller)
          /\ FieldsValid(upd)
          /\ id \notin PartIds
          /\ resp' = Response("update_spare_part", "not_found", id)
          /\ UNCHANGED parts
       \/ /\ IsAdmin(caller)
          /\ FieldsValid(upd)
          /\ id \in PartIds
          /\ LET row == UpdatedPart(parts[id], upd)
                 taken == Truthy(row.sku) /\ "sku" \in DOMAIN upd
                          /\ \E k \in PartsBySku(row.sku) : k # id
             IN  IF taken
                 THEN resp' = Response("update_spare_part", "validation", id)
                      /\ UNCHANGED parts
                 ELSE IF SkuClash(id, row.sku)
                 THEN resp' = Response("update_spare_part", "internal", id)
                      /\ UNCHANGED parts
                 ELSE resp' = Response("update_spare_part", "ok", id)
                      /\ parts' = [parts EXCEPT ![id] = row]
    /\ UNCHANGED <<roles, users, jobs, now, creators>>

\* DELETE /spare_parts/{id} (admin only): soft delete
DeleteSparePart(caller, id) ==
    /\ \/ /\ ~IsAdmin(caller)
          /\ resp' = Response("delete_spare_part", "forbidden", id)
          /\ UNCHANGED parts
       \/ /\ IsAdmin(caller)
          /\ id \notin PartIds
          /\ resp' = Response("delete_spare_part", "not_found", id)
          /\ UNCHANGED parts
       \/ /\ IsAdmin(caller)
          /\ id \in PartIds
          /\ parts' = [parts EXCEPT ![id].is_active = FALSE]
          /\ resp' = Response("delete_spare_part", "ok", id)
    /\ UNCHANGED <<roles, users, jobs, now, creators>>

\* variant: the check lets the stock go one below zero
InsufficientStock_OffByOne(new_quantity) == new_quantity < -1

\* if new_quantity < 0
InsufficientStock(new_quantity) == new_quantity < 0

\* variant: a removal is applied to the stock twice
NewQuantity_DoubleRemoval(quantity_in_stock, quantity_change) ==
    IF quantity_change < 0 /\ quantity_in_stock + 2 * quantity_change >= 0
    THEN quantity_in_stock + 2 * quantity_change
    ELSE quantity_in_stock + quantity_change

\* new_quantity = db_spare_part.quantity_in_stock + stock_update.quantity_change
NewQuantity(quantity_in_stock, quantity_change) == quantity_in_stock + quantity_change

\* PATCH /spare_parts/{id}/stock (admin or mechanic)
UpdateStock(caller, id, quantity_change) ==
    /\ \/ /\ ~IsStaff(caller)
          /\ resp' = Response("update_stock", RoleGateOutcome(caller), id)
          /\ UNCHANGED parts
       \/ /\ IsStaff(caller)
          /\ id \notin PartIds
          /\ resp' = Response("update_stock", "not_found", id)
          /\ UNCHANGED parts
       \/ /\ IsStaff(caller)
          /\ id \in PartIds
          /\ LET new_quantity == NewQuantity(parts[id].quantity_in_stock, quantity_change)
                 r == [Response("update_stock", "ok", id) EXCEPT
                          !.quantity_change = quantity_change,
                          !.before = parts[id].quantity_in_stock]
             IN  IF InsufficientStock(new_quantity)
                 THEN resp' = [r EXCEPT !.outcome = "validation"]
                      /\ UNCHANGED parts
                 ELSE resp' = r
                      /\ parts' = [parts EXCEPT ![id].quantity_in_stock = new_quantity]
    /\ UNCHANGED <<roles, users, jobs, now, creators>>

(***************************************************************************)
(* PATCH /spare_parts/{id}/stock served concurrently: update_stock loads   *)
(* the part and computes new_quantity from the quantity it read            *)
(* (UpdateStockRead), and later assigns new_quantity and commits           *)
(* (UpdateStockCommit); the UPDATE writes the computed value.  Another     *)
(* request may commit in between.  The request in flight occupies slot p   *)
(* with <<id, quantity_change, new_quantity>>.                             *)
(***************************************************************************)
UpdateStockRead(p, caller, id, quantity_change) ==
    /\ creators[p].pc = "idle"
    /\ IsStaff(caller)
    /\ IF id \notin PartIds
       THEN /\ resp' = Response("update_stock", "not_found", id)
            /\ UNCHANGED creators
       ELSE LET new_quantity == NewQuantity(parts[id].quantity_in_stock, quantity_change)
            IN  IF InsufficientStock(new_quantity)
                THEN /\ resp' = [Response("update_stock", "validation", id) EXCEPT
                                    !.quantity_change = quantity_change,
                                    !.before = parts[id].quantity_in_stock]
                     /\ UNCHANGED creators
                ELSE /\ creators' = [creators EXCEPT ![p] =
                                        [IdleCreator EXCEPT
                                            !.pc = "stock_read", !.caller = caller,
                                            !.job_number = <<id, quantity_change, new_quantity>>]]
                     /\ UNCHANGED resp
    /\ UNCHANGED <<roles, users, jobs, parts, now>>

UpdateStockCommit(p) ==
    /\ creators[p].pc = "stock_read"
    /\ LET id == creators[p].job_number[1]
           quantity_change == creators[p].job_number[2]
           new_quantity == creators[p].job_number[3]
       IN  /\ parts' = [parts EXCEPT ![id].quantity_in_stock = new_quantity]
           /\ resp' = [Response("update_stock", "ok", id) EXCEPT
                          !.quantity_change = quantity_change]
    /\ creators' = [creators EXCEPT ![p].pc = "stock_committed"]
    /\ UNCHANGED <<roles, users, jobs, now>>

\* variant: a part at its minimum level is not low
IsLowStock_StrictlyBelow(row) ==
    row.quantity_in_stock < row.minimum_stock_level /\ row.is_active

\* the filter of get_low_stock_items
IsLowStock(row) ==
    row.quantity_in_stock <= row.minimum_stock_level /\ row.is_active

\* LowStockAlert for part i
LowStockAlert(i) ==
    [id |-> i,
     current_stock |-> parts[i].quantity_in_stock,
     minimum_level |-> parts[i].minimum_stock_level,
     needs_reorder |-> (parts[i].quantity_in_stock = 0)]

\* GET /spare_parts/alerts/low-stock (admin or mechanic); the query has no
\* ORDER BY, the alerts are kept as a set
GetLowStockAlerts(caller) ==
    /\ \/ /\ ~IsStaff(caller)
          /\ resp' = Response("low_stock", RoleGateOutcome(caller), NoId)
       \/ /\ IsStaff(caller)
          /\ resp' = [Response("low_stock", "ok", NoId) EXCEPT
                         !.alerts = {LowStockAlert(i) : i \in {k \in PartIds : IsLowStock(parts[k])}}]
    /\ UNCHANGED <<roles, users, jobs, parts, now, creators>>

(***************************************************************************)
(* Initial state: the database after create_admin.py (the three roles and  *)
(* the admin) and the registration of two mechanics and two customers      *)
(* through POST /auth/users; no jobs, no parts, no request in flight.      *)
(***************************************************************************)
SeedRoles ==
    {[id |-> 1, name |-> "admin"], [id |-> 2, name |-> "mechanic"],
     [id |-> 3, name |-> "customer"]}

SeedUsers ==
    LET Seed(email, role_id) ==
            [email |-> email, role_id |-> role_id,
             hashed_password |-> GetPasswordHash(<<"s", "e", "e", "d">>)]
    IN  << Seed("admin@shop", 1), Seed("m1@shop", 2), Seed("m2@shop", 2),
           Seed("c1@mail", 3), Seed("c2@mail", 3) >>

Init ==
    /\ roles = SeedRoles
    /\ users = SeedUsers
    /\ jobs = <<>>
    /\ parts = <<>>
    /\ now = 1
    /\ creators = [p \in 1..MaxCreators |-> IdleCreator]
    /\ resp = NoResponse

(***************************************************************************)
(* Identity store (apps/auth): roles and user registration.  The role     *)
(* endpoints are admin only and re-raise the service's HTTPException; the  *)
(* registration endpoint takes no identity and turns every exception,      *)
(* the service's HTTPException included, into 500.                         *)
(***************************************************************************)
\* variant: the users of the role are not counted
UsersWithRole_NotCounted(role_id) == {}

\* users.role_id == role_id
UsersWithRole(role_id) == {u \in UserIds : users[u].role_id = role_id}

\* the id the store gives the next role row
NextRoleId == IF roles = {} THEN 1
              ELSE (CHOOSE r \in roles : \A q \in roles : q.id <= r.id).id + 1

\* get_role
RoleById(role_id) == {r \in roles : r.id = role_id}

\* POST /auth/roles
CreateNewRole(caller, name) ==
    /\ \/ /\ ~IsAdmin(caller)
          /\ resp' = Response("create_role", "forbidden", NoId)
          /\ UNCHANGED roles
       \/ /\ IsAdmin(caller)
          /\ RoleByName(name) # {}
          /\ resp' = Response("create_role", "validation", NoId)
          /\ UNCHANGED roles
       \/ /\ IsAdmin(caller)
          /\ RoleByName(name) = {}
          /\ NextRoleId <= MaxRoleId
          /\ roles' = roles \cup {[id |-> NextRoleId, name |-> name]}
          /\ resp' = Response("create_role", "ok", NextRoleId)
    /\ UNCHANGED <<users, jobs, parts, now, creators>>

\* PUT /auth/roles/{role_id}; name = NoText leaves the name as it is
UpdateExistingRole(caller, role_id, name) ==
    /\ \/ /\ ~IsAdmin(caller)
          /\ resp' = Response("update_role", "forbidden", role_id)
          /\ UNCHANGED roles
       \/ /\ IsAdmin(caller)
          /\ RoleById(role_id) = {}
          /\ resp' = Response("update_role", "not_found", role_id)
          /\ UNCHANGED roles
       \/ /\ IsAdmin(caller)
          /\ \E db_role \in RoleById(role_id) :
                IF Truthy(name) /\ name # db_role.name /\ RoleByName(name) # {}
                THEN /\ resp' = Response("update_role", "validation", role_id)
                     /\ UNCHANGED roles
                ELSE /\ roles' = (roles \ {db_role})
                                 \cup {[db_role EXCEPT
                                          !.name = IF name = NoText THEN db_role.name
                                                   ELSE name]}
                     /\ resp' = Response("update_role", "ok", role_id)
    /\ UNCHANGED <<users, jobs, parts, now, creators>>

\* DELETE /auth/roles/{role_id}; total carries the user count of the 400
DeleteExistingRole(caller, role_id) ==
    /\ \/ /\ ~IsAdmin(caller)
          /\ resp' = Response("delete_role", "forbidden", role_id)
          /\ UNCHANGED roles
       \/ /\ IsAdmin(caller)
          /\ RoleById(role_id) = {}
          /\ resp' = Response("delete_role", "not_found", role_id)
          /\ UNCHANGED roles
       \/ /\ IsAdmin(caller)
          /\ RoleById(role_id) # {}
          /\ LET user_count == Cardinality(UsersWithRole(role_id))
             IN  IF user_count > 0
                 THEN /\ resp' = [Response("delete_role", "validation", role_id)
                                     EXCEPT !.total = user_count]
                      /\ UNCHANGED roles
                 ELSE /\ roles' = roles \ RoleById(role_id)
                      /\ resp' = Response("delete_role", "ok", role_id)
    /\ UNCHANGED <<users, jobs, parts, now, creators>>

\* users.email is UNIQUE: a second row with the email fails at the commit
EmailClash(email) == UserByEmail(email) # {}

\* create_new_user: except Exception -> HTTPException(500)
RegistrationError(role) == "internal"

\* POST /auth/users: create_user raises 400 for a role name without a row;
\* a second row with the email fails at the commit
CreateNewUser(email, role) ==
    /\ \/ /\ RoleByName(role) = {} \/ EmailClash(email)
          /\ resp' = Response("create_user", RegistrationError(role), NoId)
          /\ UNCHANGED users
       \/ /\ RoleByName(role) # {}
          /\ ~EmailClash(email)
          /\ Len(users) < Len(SeedUsers) + MaxNewUsers
          /\ users' = Append(users, [email |-> email,
                                     hashed_password |-> GetPasswordHash(<<"p", "w">>),
                                     role_id |-> (CHOOSE r \in RoleByName(role) : TRUE).id])
          /\ resp' = Response("create_user", "ok", Len(users) + 1)
    /\ UNCHANGED <<roles, jobs, parts, now, creators>>

(***************************************************************************)
(* DELETE /auth/roles/{role_id} served concurrently with other requests:   *)
(* delete_role first loads the role and counts its users                   *)
(* (DeleteRoleCount), and later deletes and commits (DeleteRoleCommit);    *)
(* another request may commit in between.  The request in flight occupies  *)
(* slot p with the role id it counted.  At the commit, a database that     *)
(* enforces the users.role_id foreign key rejects the delete of a role     *)
(* that by then has a user (500); SQLite, the default DATABASE_URL, does   *)
(* not enforce foreign keys and deletes the role.                          *)
(***************************************************************************)
DeleteRoleCount(p, caller, role_id) ==
    /\ creators[p].pc = "idle"
    /\ IsAdmin(caller)
    /\ IF RoleById(role_id) = {}
       THEN /\ resp' = Response("delete_role", "not_found", role_id)
            /\ UNCHANGED creators
       ELSE IF UsersWithRole(role_id) # {}
       THEN /\ resp' = [Response("delete_role", "validation", role_id)
                           EXCEPT !.total = Cardinality(UsersWithRole(role_id))]
            /\ UNCHANGED creators
       ELSE /\ creators' = [creators EXCEPT ![p] =
                               [IdleCreator EXCEPT !.pc = "counted", !.caller = caller,
                                                   !.job_number = <<role_id>>]]
            /\ UNCHANGED resp
    /\ UNCHANGED <<roles, users, jobs, parts, now>>

DeleteRoleCommit(p) ==
    /\ creators[p].pc = "counted"
    /\ LET role_id == creators[p].job_number[1]
       IN  \/ /\ RoleById(role_id) # {}
              /\ roles' = roles \ RoleById(role_id)
              /\ resp' = Response("delete_role", "ok", role_id)
           \/ /\ RoleById(role_id) = {} \/ UsersWithRole(role_id) # {}
              /\ roles' = roles
              /\ resp' = Response("delete_role", "internal", role_id)
    /\ creators' = [creators EXCEPT ![p] = IdleCreator]
    /\ UNCHANGED <<users, jobs, parts, now>>

(***************************************************************************)
(* Request inputs.                                                         *)
(***************************************************************************)
\* ids of the seeded users (users rows are never deleted)
SeedId(email) == CHOOSE u \in 1..Len(SeedUsers) : SeedUsers[u].email = email

Admin1 == SeedId("admin@shop")

Mechanic1 == SeedId("m1@shop")

Mechanic2 == SeedId("m2@shop")

Customer1 == SeedId("c1@mail")

Customer2 == SeedId("c2@mail")

\* one caller of each role
Callers == {Admin1, Mechanic1, Customer1}

PlainJob ==
    [customer_name |-> <<"A", "b">>, customer_phone |-> <<"0", "7">>,
     customer_email |-> NoText, vehicle_name |-> <<"b">>,
     motorcycle_numberplate |-> <<"U", "A">>, problem_description |-> <<"a">>,
     create_customer_account |-> TRUE]

NotesInputs == {NoText, "", "n1"}

CostInputs == {0, 1}

\* PUT bodies that touch the status and notes columns
StatusUpdates ==
    {[status |-> s] : s \in SchemaJobStatus \cup {NoStatus}}
    \cup {[status |-> "COMPLETED", repair_notes |-> "n1"], [diagnosis_notes |-> "n1"]}

(***************************************************************************)
(* SpecStatus: the lifecycle of the status, notes, cost and completed_at   *)
(* columns of one job (the handlers address a job by id and write that row *)
(* only).  Every input combination is tried by a permitted caller on the   *)
(* job; the other callers and the id without a row send one request each.  *)
(***************************************************************************)
\* the id of the job and an id without a row
JobIdInputs == {1, 2}

\* the suffix drawn for the job
FirstDraw == {0}

StatusRequests ==
    {r \in Callers \X JobIdInputs \X SchemaJobStatus \X NotesInputs :
        \/ r[1] = Mechanic1 /\ r[2] = 1
        \/ r[3] = "READY" /\ r[4] = NoText}

UpdateRequests ==
    {r \in Callers \X JobIdInputs \X StatusUpdates :
        \/ r[1] = Admin1 /\ r[2] = 1
        \/ r[3] = [status |-> "READY"]}

CostRequests ==
    {r \in Callers \X JobIdInputs \X CostInputs \X NotesInputs :
        \/ r[1] = Mechanic1 /\ r[2] = 1
        \/ r[3] = 1 /\ r[4] = NoText}

NextStatus ==
    \/ \E c \in Callers, n \in FirstDraw :
          jobs = <<>> /\ CreateJob(c, PlainJob, n)
    \/ \E r \in UpdateRequests : UpdateJob(r[1], r[2], r[3])
    \/ \E r \in StatusRequests : UpdateJobStatus(r[1], r[2], r[3], r[4])
    \/ \E r \in CostRequests : UpdateJobCost(r[1], r[2], r[3], r[4])
    \/ Tick

SpecStatus == Init /\ [][NextStatus]_vars

(***************************************************************************)
(* C8.  A COMPLETED job has a completed_at, and every update_job_status or *)
(* update_job request that sets the status to COMPLETED stamps             *)
(* completed_at with the time of that request, also when the job was       *)
(* COMPLETED before (the timestamp is refreshed).                          *)
(***************************************************************************)
C8_CompletedIsStamped ==
    [][ /\ \A j \in 1..Len(jobs') :
              jobs'[j].status = "COMPLETED" => jobs'[j].completed_at # NoTime
        /\ resp'.op = "update_job_status" /\ resp'.outcome = "ok" =>
              \A r \in StatusRequests :
                 r[3] = "COMPLETED" /\ r[2] = resp'.id
                 /\ UpdateJobStatus(r[1], r[2], r[3], r[4]) =>
                    jobs'[r[2]].completed_at = now
        /\ resp'.op = "update_job" /\ resp'.outcome = "ok" =>
              \A r \in UpdateRequests :
                 ( /\ "status" \in DOMAIN r[3]
                   /\ r[3]["status"] = "COMPLETED"
                   /\ r[2] = resp'.id
                   /\ UpdateJob(r[1], r[2], r[3]) ) =>
                    jobs'[r[2]].completed_at = now
      ]_vars

\* a job completed again at a later time carries the later timestamp
C8_Witness ==
    /\ resp.op \in {"update_job_status", "update_job"}
    /\ resp.outcome = "ok"
    /\ Len(jobs) >= 1
    /\ jobs[1].status = "COMPLETED"
    /\ jobs[1].created_at < jobs[1].completed_at
    /\ jobs[1].completed_at = now

(***************************************************************************)
(* C9 as stated.  completed_at is null on creation, never returns to null  *)
(* and, once set, is not changed by any later operation.                   *)
(***************************************************************************)
C9_SetExactlyOnce ==
    [][ /\ \A j \in 1..Len(jobs') : j > Len(jobs) => jobs'[j].completed_at = NoTime
        /\ \A j \in 1..Len(jobs) :
              /\ jobs[j].completed_at = NoTime /\ jobs'[j].completed_at # NoTime
                    => jobs'[j].status = "COMPLETED"
              /\ jobs[j].completed_at # NoTime
                    => jobs'[j].completed_at = jobs[j].completed_at
      ]_vars

(***************************************************************************)
(* C9 amended.  completed_at is null on creation, never returns to null,   *)
(* and its value changes only in a request that sets the status to         *)
(* COMPLETED, which stamps it with the time of that request (so a later    *)
(* completion replaces the earlier timestamp).                             *)
(***************************************************************************)
C9_ChangesOnlyOnCompletion ==
    [][ /\ \A j \in 1..Len(jobs') : j > Len(jobs) => jobs'[j].completed_at = NoTime
        /\ \A j \in 1..Len(jobs) :
              /\ jobs[j].completed_at # NoTime => jobs'[j].completed_at # NoTime
              /\ jobs'[j].completed_at # jobs[j].completed_at
                    => /\ jobs'[j].status = "COMPLETED"
                       /\ jobs'[j].completed_at = now
                       /\ resp'.op \in {"update_job_status", "update_job"}
                       /\ resp'.id = j
      ]_vars

\* a job that was completed and then moved on keeps its timestamp
C9_Witness ==
    /\ Len(jobs) >= 1
    /\ jobs[1].completed_at # NoTime
    /\ jobs[1].completed_at < now
    /\ jobs[1].status = "REPAIRING"

(***************************************************************************)
(* C10.  update_job_status writes diagnosis_notes only when the requested  *)
(* status is DIAGNOSING and the notes are non-empty, repair_notes only     *)
(* when it is REPAIRING and the notes are non-empty; otherwise both keep   *)
(* their values; and it never changes actual_cost, assigned_mechanic_id    *)
(* or customer_user_id.                                                    *)
(***************************************************************************)
C10_StatusUpdateFrame ==
    [][ resp'.op = "update_job_status" =>
          \A r \in StatusRequests :
             r[2] \in 1..Len(jobs) /\ r[2] = resp'.id =>
                LET old == jobs[r[2]]
                    new == jobs'[r[2]]
                IN  \* the step is not this request, or it keeps the frame
                    \/ /\ Len(jobs') = Len(jobs)
                       /\ new.diagnosis_notes # old.diagnosis_notes =>
                             r[3] = "DIAGNOSING" /\ r[4] \notin {NoText, ""}
                       /\ new.repair_notes # old.repair_notes =>
                             r[3] = "REPAIRING" /\ r[4] \notin {NoText, ""}
                       /\ new.actual_cost = old.actual_cost
                       /\ new.assigned_mechanic_id = old.assigned_mechanic_id
                       /\ new.customer_user_id = old.customer_user_id
                    \/ ~UpdateJobStatus(r[1], r[2], r[3], r[4])
      ]_vars

\* REPAIRING with notes wrote repair_notes and left diagnosis_notes null
C10_Witness ==
    /\ resp.op = "update_job_status"
    /\ resp.outcome = "ok"
    /\ Len(jobs) >= 1
    /\ jobs[1].status = "REPAIRING"
    /\ jobs[1].repair_notes = "n1"
    /\ jobs[1].diagnosis_notes = NoText
    /\ jobs[1].actual_cost = 1

(***************************************************************************)
(* C24.  update_job_status called by an admin or a mechanic on a stored    *)
(* job, whatever its current status, with any status the request schema    *)
(* accepts, succeeds and leaves the job in the requested status.           *)
(***************************************************************************)
C24_AnyStatusAccepted ==
    [][ resp'.op = "update_job_status" =>
          \A r \in StatusRequests :
             ( /\ IsStaff(r[1])
               /\ r[2] \in JobIds
               /\ UpdateJobStatus(r[1], r[2], r[3], r[4]) ) =>
                /\ resp'.outcome = "ok"
                /\ jobs'[r[2]].status = r[3]
      ]_vars

(***************************************************************************)
(* SpecAssign: the assigned_mechanic_id column of one job under every      *)
(* writer of the jobs table.                                               *)
(***************************************************************************)
\* an id that no users row has (no request of SpecAssign creates a user)
MissingUserId == Len(SeedUsers) + 1

AssigneeInputs == {Mechanic1, Mechanic2, Customer1, Admin1, MissingUserId}

AssignRequests ==
    {r \in Callers \X JobIdInputs \X AssigneeInputs :
        \/ r[1] = Admin1 /\ r[2] = 1
        \/ r[3] = Mechanic1}

\* PUT bodies that touch the assignment
AssignUpdates ==
    {[assigned_mechanic_id |-> m] : m \in {NoId, Mechanic2, Customer1, MissingUserId}}
    \cup {[status |-> "READY"]}

AssignUpdateRequests ==
    {r \in Callers \X JobIdInputs \X AssignUpdates :
        \/ r[1] = Admin1 /\ r[2] = 1
        \/ r[3] = [status |-> "READY"]}

AssignStatusRequests ==
    {r \in Callers \X JobIdInputs \X {"CHECKED_IN", "REPAIRING"} \X {NoText} :
        \/ r[1] = Mechanic1 /\ r[2] = 1
        \/ r[3] = "REPAIRING"}

AssignCostRequests == Callers \X JobIdInputs \X {1} \X {"n1"}

\* a walk-in job and a job for the registered customer c1
AssignJobInputs == {PlainJob, [PlainJob EXCEPT !.customer_email = "c1@mail"]}

NextAssign ==
    \/ \E c \in Callers, d \in AssignJobInputs, n \in FirstDraw :
          jobs = <<>> /\ CreateJob(c, d, n)
    \/ \E r \in AssignRequests : AssignMechanic(r[1], r[2], r[3])
    \/ \E r \in AssignUpdateRequests : UpdateJob(r[1], r[2], r[3])
    \/ \E r \in AssignStatusRequests : UpdateJobStatus(r[1], r[2], r[3], r[4])
    \/ \E r \in AssignCostRequests : UpdateJobCost(r[1], r[2], r[3], r[4])

SpecAssign == Init /\ [][NextAssign]_vars

(***************************************************************************)
(* C6.  assign_mechanic by an admin on an existing job fails with the      *)
(* validation error (400) whenever the target id has no users row or the   *)
(* user's role is not mechanic, and then leaves assigned_mechanic_id as it *)
(* was; on a job id without a row it fails with NotFound (404).            *)
(***************************************************************************)
C6_AssignRejectsNonMechanic ==
    [][ resp'.op = "assign_mechanic" =>
          \A r \in AssignRequests :
             AssignMechanic(r[1], r[2], r[3]) /\ IsAdmin(r[1]) =>
                /\ r[2] \notin 1..Len(jobs) => resp'.outcome = "not_found" /\ jobs' = jobs
                /\ ( /\ r[2] \in 1..Len(jobs)
                     /\ (r[3] \notin UserIds \/ RoleName(r[3]) # "mechanic") ) =>
                      /\ resp'.outcome = "validation"
                      /\ jobs'[r[2]].assigned_mechanic_id = jobs[r[2]].assigned_mechanic_id
      ]_vars

(***************************************************************************)
(* C7.  Every job whose assigned_mechanic_id is set references an existing *)
(* user whose role is mechanic.                                            *)
(***************************************************************************)
C7_AssignedIsMechanic ==
    \A j \in JobIds :
        jobs[j].assigned_mechanic_id # NoId =>
            /\ jobs[j].assigned_mechanic_id \in UserIds
            /\ RoleName(jobs[j].assigned_mechanic_id) = "mechanic"

C25_IdentityColumnsImmutable ==
    [][ /\ \A j \in JobIds :
              /\ j \in 1..Len(jobs')
              /\ jobs'[j].job_number = jobs[j].job_number
              /\ jobs'[j].created_by_id = jobs[j].created_by_id
              /\ jobs'[j].customer_user_id = jobs[j].customer_user_id
        /\ resp'.op = "create_job" /\ resp'.outcome = "ok" =>
              \A c \in Callers, d \in AssignJobInputs, n \in FirstDraw :
                 CreateJob(c, d, n) =>
                    /\ IsStaff(c)
                    /\ jobs'[resp'.id].created_by_id = c
      ]_vars

\* a job linked to a customer, created by the mechanic, after an assignment
\* and a cost update
C25_Witness ==
    /\ jobs # <<>>
    /\ jobs[1].customer_user_id = Customer1
    /\ jobs[1].created_by_id = Mechanic1
    /\ jobs[1].assigned_mechanic_id = Mechanic1
    /\ jobs[1].actual_cost = 1
    /\ jobs[1].status = "READY"

(***************************************************************************)
(* SpecList: the role-scoped listings over a jobs table whose rows differ  *)
(* in customer link, assignment, status and text.  The number generator    *)
(* draws the suffixes 0, 1, ... in turn.                                   *)
(***************************************************************************)
\* a job for a walk-in, for customer c1 and for customer c2 (an email of an
\* existing user links the job to that user)
ListJobInputs ==
    {PlainJob,
     [PlainJob EXCEPT !.customer_email = "c1@mail"],
     [PlainJob EXCEPT !.customer_email = "c2@mail", !.customer_name = <<"B", "o">>,
                      !.customer_phone = <<"1", "7">>]}

ListCallers == {Admin1, Mechanic1, Customer1}

ListFilters ==
    {f \in [status : {NoStatus, "REPAIRING"}, search : {<<>>, <<"b", "O">>, <<"%">>},
            customer_phone : {<<>>, <<"7">>}, numberplate : {<<>>, <<"u">>}] :
        Cardinality({k \in {"search", "customer_phone", "numberplate"} : f[k] # <<>>}) <= 1}

SkipInputs == {0, 1}

LimitInputs == {1, DefaultLimit}

\* every filter on the default page and every page of the unfiltered and of
\* the status-filtered listing, for a mechanic and a customer; the whole
\* table for the admin
ListRequests ==
    ({Mechanic1, Customer1} \X ListFilters \X {0} \X {DefaultLimit})
    \cup ({Mechanic1, Customer1}
              \X {NoFilters, [NoFilters EXCEPT !.status = "REPAIRING"]}
              \X SkipInputs \X LimitInputs)
    \cup ({Admin1} \X {NoFilters} \X {0} \X {DefaultLimit})

NextList ==
    \/ \E d \in ListJobInputs : CreateJob(Admin1, d, Len(jobs))
    \/ \E j \in JobIdInputs, m \in {Mechanic1, Mechanic2} : AssignMechanic(Admin1, j, m)
    \/ \E j \in {1}, st \in {"REPAIRING", "CHECKED_IN"} : UpdateJobStatus(Mechanic1, j, st, NoText)
    \/ \E r \in ListRequests : GetJobs(r[1], r[2], r[3], r[4])
    \/ \E c \in ListCallers : GetMyJobs(c)

SpecList == Init /\ [][NextList]_vars

(***************************************************************************)
(* C2.  Whatever the filters and the page, get_jobs and my-jobs return to  *)
(* a customer no job whose customer_user_id differs from the customer's    *)
(* id.                                                                     *)
(***************************************************************************)
C2_CustomerSeesOwnJobsOnly ==
    resp.op \in {"get_jobs", "get_my_jobs"} /\ RoleName(resp.caller) = "customer" =>
        \A i \in 1..Len(resp.items) : resp.items[i].customer_user_id = resp.caller

\* a customer got their job while the table also holds a job of someone else
C2_Witness ==
    /\ resp.op = "get_jobs"
    /\ resp.outcome = "ok"
    /\ RoleName(resp.caller) = "customer"
    /\ Len(resp.items) = 1
    /\ \E j \in JobIds : jobs[j].customer_user_id \notin {resp.caller, NoId}

(***************************************************************************)
(* C3.  Whatever the filters and the page, every job get_jobs returns to a *)
(* mechanic is unassigned or assigned to that mechanic.                    *)
(***************************************************************************)
C3_MechanicSeesNoOtherMechanicsJobs ==
    resp.op = "get_jobs" /\ RoleName(resp.caller) = "mechanic" =>
        \A i \in 1..Len(resp.items) :
            resp.items[i].assigned_mechanic_id \in {NoId, resp.caller}

\* a mechanic got a job while the table also holds a job of another mechanic
C3_Witness ==
    /\ resp.op = "get_jobs"
    /\ resp.outcome = "ok"
    /\ RoleName(resp.caller) = "mechanic"
    /\ Len(resp.items) = 1
    /\ \E j \in JobIds : jobs[j].assigned_mechanic_id \notin {resp.caller, NoId}

(***************************************************************************)
(* SpecParts: the spare-parts ledger.  Requests that would take a quantity *)
(* above MaxQty are not issued.                                            *)
(***************************************************************************)
Quantities == (0 - 1)..MaxQty

PartInputs ==
    [sku : {NoText}, quantity_in_stock : Quantities, minimum_stock_level : {0}]

PartUpdates == {[quantity_in_stock |-> q] : q \in Quantities}

PartIdInputs == 1..(MaxParts + 1)

Deltas == (0 - MaxQty)..MaxQty

\* the admin creates and updates with every input; one request of a caller
\* without the right stands for the refused ones
CreatePartRequests ==
    ({Admin1} \X PartInputs)
    \cup ({Mechanic1} \X {[sku |-> NoText, quantity_in_stock |-> 1, minimum_stock_level |-> 0]})

UpdatePartRequests ==
    ({Admin1} \X PartIdInputs \X PartUpdates)
    \cup ({Mechanic1} \X {1} \X {[quantity_in_stock |-> 1]})

\* the first part and a missing part are deleted
DeletePartRequests == ({Admin1} \X {1, MaxParts + 1}) \cup ({Mechanic1} \X {1})

StockRequests ==
    ({Mechanic1} \X PartIdInputs \X Deltas) \cup ({Customer1} \X {1} \X {1})

NextParts ==
    \/ \E r \in CreatePartRequests : CreateSparePart(r[1], r[2])
    \/ \E r \in UpdatePartRequests : UpdateSparePart(r[1], r[2], r[3])
    \/ \E r \in DeletePartRequests : DeleteSparePart(r[1], r[2])
    \/ \E r \in StockRequests :
          /\ r[2] \in PartIds => parts[r[2]].quantity_in_stock + r[3] <= MaxQty
          /\ UpdateStock(r[1], r[2], r[3])

SpecParts == Init /\ [][NextParts]_vars

C5_StockRoundTrip ==
    [][ /\ resp'.op = "update_stock" =>
              \A qc \in 0..MaxQty :
                 UpdateStock(Mechanic1, resp'.id, qc) /\ resp'.id \in PartIds =>
                    /\ resp'.outcome = "ok"
                    /\ parts'[resp'.id].quantity_in_stock
                          = parts[resp'.id].quantity_in_stock + qc
        /\ ( /\ resp.op = "update_stock"
             /\ resp.outcome = "ok"
             /\ resp.quantity_change >= 0
             /\ UpdateStock(Mechanic1, resp.id, 0 - resp.quantity_change) ) =>
              /\ resp'.outcome = "ok"
              /\ parts'[resp.id].quantity_in_stock = resp.before
      ]_vars

\* the removal of d > 0 succeeded and left a positive stock
C5_Witness ==
    /\ resp.op = "update_stock"
    /\ resp.outcome = "ok"
    /\ resp.quantity_change < 0
    /\ resp.id \in PartIds
    /\ parts[resp.id].quantity_in_stock = resp.before + resp.quantity_change
    /\ parts[resp.id].quantity_in_stock > 0

(***************************************************************************)
(* SpecCreate: MaxCreators POST /jobs/ requests in flight at once, each    *)
(* split at the point where another request's commit can fall between its  *)
(* number generation and its own commit.                                   *)
(***************************************************************************)
CreatorCallers == {Admin1, Mechanic1}

SuffixDraws == 0..MaxSuffix

\* a walk-in job and a job whose email has no account yet
CreatorJobInputs == {PlainJob, [PlainJob EXCEPT !.customer_email = "new@mail"]}

NextCreate ==
    \/ \E p \in 1..MaxCreators, c \in CreatorCallers, d \in CreatorJobInputs,
          n \in SuffixDraws :
          CreatorGenerate(p, c, d, n)
    \/ \E p \in 1..MaxCreators : CreatorCommit(p)

SpecCreate == Init /\ [][NextCreate]_vars

(***************************************************************************)
(* C1.  In every reachable state, under every interleaving of concurrent   *)
(* create_job requests, no two stored jobs share a job_number, every       *)
(* job_number is "JOB-" followed by exactly six decimal digits, and no     *)
(* request fails because a concurrent creator took its number (it draws    *)
(* again instead).                                                         *)
(***************************************************************************)
IsDigit(c) == \E i \in 1..Len(DigitChars) : DigitChars[i] = c

C27_UserAndJobAtomic ==
    [][ Len(users') > Len(users) =>
          /\ users' = Append(users, users'[Len(users')])
          /\ jobs' = Append(jobs, jobs'[Len(jobs')])
          /\ jobs'[Len(jobs')].customer_user_id = Len(users')
      ]_vars

\* a request that asked for a new account failed at the commit and the
\* account does not exist
C27_Witness ==
    \E p \in 1..MaxCreators :
        /\ creators[p].pc = "integrity_error"
        /\ creators[p].data.customer_email = "new@mail"
        /\ UserByEmail("new@mail") = {}

(***************************************************************************)
(* SpecProvision: POST /jobs/ with every combination of the account flag   *)
(* and the customer email (none, an existing customer's, an existing       *)
(* mechanic's, a new one) while the admin renames, deletes and re-creates  *)
(* the customer role.                                                      *)
(***************************************************************************)
ProvisionEmails == {NoText, "c1@mail", "m1@shop", "new@mail"}

ProvisionJobInputs ==
    {[PlainJob EXCEPT !.customer_email = e, !.create_customer_account = a] :
        e \in ProvisionEmails, a \in BOOLEAN}

\* the admin creates with every input, a mechanic and a customer send one
\* request each
ProvisionRequests ==
    ({Admin1} \X ProvisionJobInputs) \cup ({Mechanic1, Customer1} \X {PlainJob})

CustomerRoleId == (CHOOSE r \in SeedRoles : r.name = "customer").id

RoleNameInputs == {"customer", "vip"}

NextProvision ==
    \/ \E r \in ProvisionRequests : CreateJob(r[1], r[2], Len(jobs))
    \/ \E n \in RoleNameInputs : UpdateExistingRole(Admin1, CustomerRoleId, n)
    \/ \E n \in RoleNameInputs : CreateNewRole(Admin1, n)
    \/ \E i \in {CustomerRoleId, MaxRoleId} : DeleteExistingRole(Admin1, i)

SpecProvision == Init /\ [][NextProvision]_vars

\* the request neither asks for an account nor can get one
NoAccountAsked(d) == ~d.create_customer_account \/ d.customer_email = NoText

(***************************************************************************)
(* C11.  A create_job request by staff with create_customer_account false  *)
(* or without a customer email leaves the users table unchanged, returns   *)
(* no credentials, persists the job, and leaves its customer_user_id       *)
(* unset.                                                                  *)
(***************************************************************************)
C11_NoAccountJobStillCreated ==
    [][ resp'.op = "create_job" =>
          \A r \in ProvisionRequests :
             ( /\ IsStaff(r[1])
               /\ NoAccountAsked(r[2])
               /\ CreateJob(r[1], r[2], Len(jobs)) ) =>
                /\ users' = users
                /\ ~resp'.credentials
                /\ Len(jobs') = Len(jobs) + 1
                /\ jobs'[Len(jobs')].customer_user_id = NoId
      ]_vars

RoleIdInputs == 1..MaxRoleId

IdentityRoleNames == {"mechanic", "vip"}

RegistrationInputs == {"m3@shop", "c1@mail"} \X {"mechanic", "vip"}

NextIdentity ==
    \/ \E c \in {Admin1, Mechanic1}, n \in IdentityRoleNames : CreateNewRole(c, n)
    \/ \E i \in RoleIdInputs, n \in IdentityRoleNames \cup {NoText} :
          UpdateExistingRole(Admin1, i, n)
    \/ UpdateExistingRole(Mechanic1, 1, "vip")
    \/ \E i \in RoleIdInputs : DeleteExistingRole(Admin1, i)
    \/ DeleteExistingRole(Mechanic1, 1)
    \/ \E r \in RegistrationInputs : CreateNewUser(r[1], r[2])

SpecIdentity == Init /\ [][NextIdentity]_vars

(***************************************************************************)
(* C15.  delete_role by an admin: an unknown role id gives 404; a role     *)
(* that n > 0 users reference gives 400 stating n, and the roles and users *)
(* tables stay as they are; a role no user references is removed, and      *)
(* only then.                                                              *)
(***************************************************************************)
C15_DeleteRoleGuarded ==
    [][ resp'.op = "delete_role" =>
          \A i \in RoleIdInputs :
             IsAdmin(Admin1) /\ i = resp'.id /\ DeleteExistingRole(Admin1, i) =>
                LET n == Cardinality({u \in UserIds : users[u].role_id = i})
                IN  /\ users' = users
                    /\ RoleById(i) = {} =>
                          resp'.outcome = "not_found" /\ roles' = roles
                    /\ RoleById(i) # {} /\ n > 0 =>
                          /\ resp'.outcome = "validation"
                          /\ resp'.total = n
                          /\ roles' = roles
                    /\ RoleById(i) # {} /\ n = 0 =>
                          /\ resp'.outcome = "ok"
                          /\ roles' = roles \ RoleById(i)
                    /\ roles' # roles => n = 0
      ]_vars

\* the mechanic role, held by three users, was not deleted: the error names 3
C15_Witness ==
    /\ resp.op = "delete_role"
    /\ resp.outcome = "validation"
    /\ resp.total = 3
    /\ \E r \in roles : r.id = resp.id /\ r.name = "mechanic"
    /\ Cardinality(UsersWithRole(resp.id)) = 3

(***************************************************************************)
(* C20.  A business error of the service reaches the caller as that error: *)
(* a registration naming a role that does not exist is answered with the   *)
(* validation error of create_user, not with the internal error.           *)
(***************************************************************************)
C20_BusinessErrorsNotMasked ==
    [][ resp'.op = "create_user" =>
          \A r \in RegistrationInputs :
             RoleByName(r[2]) = {} /\ CreateNewUser(r[1], r[2]) =>
                resp'.outcome = "validation"
      ]_vars

(***************************************************************************)
(* SpecAlerts: the low-stock listing over parts created with different     *)
(* stocks and minimum levels, adjusted by one unit and soft-deleted.       *)
(***************************************************************************)
AlertPartInputs ==
    [sku : {NoText}, quantity_in_stock : {0, 1, 3}, minimum_stock_level : {0, 1, 2}]

AlertDeltas == {0 - 1, 1}

NextAlerts ==
    \/ \E d \in AlertPartInputs : CreateSparePart(Admin1, d)
    \/ \E i \in 1..MaxParts : DeleteSparePart(Admin1, i)
    \/ \E i \in 1..MaxParts, qc \in AlertDeltas :
          /\ i \in PartIds => parts[i].quantity_in_stock + qc <= MaxQty
          /\ UpdateStock(Mechanic1, i, qc)
    \/ \E c \in {Mechanic1, Customer1} : GetLowStockAlerts(c)

SpecAlerts == Init /\ [][NextAlerts]_vars

StatsCallers == {Admin1, Mechanic1, Customer1}

NextStats ==
    \/ \E d \in ListJobInputs : CreateJob(Admin1, d, Len(jobs))
    \/ \E j \in JobIdInputs, m \in {Mechanic1, Mechanic2} : AssignMechanic(Admin1, j, m)
    \/ \E j \in JobIdInputs, st \in {"REPAIRING", "COMPLETED", "CHECKED_IN"} :
          UpdateJobStatus(Mechanic1, j, st, NoText)
    \/ \E c \in StatsCallers : GetJobStats(c)

SpecStats == Init /\ [][NextStats]_vars

(***************************************************************************)
(* C17.  For every store and every requester, total_jobs of the            *)
(* statistics equals the total that get_jobs returns to the same requester *)
(* with no filters.                                                        *)
(***************************************************************************)
C17_StatsTotalEqualsListTotal ==
    [][ resp'.op = "get_job_stats" /\ resp'.outcome = "ok" =>
          resp'.stats["total_jobs"]
             = Cardinality(MatchingJobs(NoFilters, resp'.caller, RoleName(resp'.caller)))
      ]_vars

\* the statistics field of a status
StatsFieldOf(st) ==
    CASE st = "DIAGNOSING" -> "diagnosing"
      [] st = "REPAIRING" -> "repairing"
      [] st = "WAITING_FOR_PARTS" -> "waiting_for_parts"
      [] st = "READY" -> "ready"
      [] st = "COMPLETED" -> "completed"

RECURSIVE SumCounts(_, _)
SumCounts(rec, F) ==
    IF F = {} THEN 0
    ELSE LET f == CHOOSE x \in F : TRUE IN rec[f] + SumCounts(rec, F \ {f})

(***************************************************************************)
(* C18.  In the record get_job_stats returns, the count of each status is  *)
(* the number of jobs in that status among those the statistics count for  *)
(* the requester, and total_jobs is the sum of the per-status counts.      *)
(***************************************************************************)
C18_StatsCountsPerStatus ==
    [][ resp'.op = "get_job_stats" /\ resp'.outcome = "ok" =>
          LET S == StatsJobs(resp'.caller, RoleName(resp'.caller))
          IN  /\ \A st \in ModelJobStatus :
                    resp'.stats[StatsFieldOf(st)]
                       = Cardinality({j \in S : jobs[j].status = st})
              /\ resp'.stats["total_jobs"] = SumCounts(resp'.stats, StatsFields)
      ]_vars

(***************************************************************************)
(* SpecRead: the authenticated reads (by id, by number, the listing) over  *)
(* jobs linked to the caller, to another customer and to nobody, assigned  *)
(* to another mechanic or to nobody.                                       *)
(***************************************************************************)
ReadCallers == {Admin1, Mechanic1, Customer1}

ReadIdInputs == 1..(MaxJobs + 1)

ReadNumberInputs == {JobNumber(n) : n \in 0..MaxJobs}

NextRead ==
    \/ \E d \in ListJobInputs : CreateJob(Admin1, d, Len(jobs))
    \/ \E st \in {"REPAIRING", "CHECKED_IN"} : UpdateJobStatus(Mechanic1, 1, st, NoText)
    \/ \E c \in ReadCallers, j \in ReadIdInputs : GetJob(c, j)
    \/ \E c \in ReadCallers, n \in ReadNumberInputs : GetJobByNumber(c, n)
    \/ \E c \in ReadCallers : GetJobs(c, NoFilters, 0, DefaultLimit)
    \/ AssignMechanic(Admin1, 1, Mechanic2)

SpecRead == Init /\ [][NextRead]_vars

(***************************************************************************)
(* C19.  For a customer and a job id (or job number) of a job the customer *)
(* does not own, get_job / get_job_by_number answer as they answer for an  *)
(* id (or number) that no job has.                                         *)
(***************************************************************************)
C19_ForbiddenHidesExistence ==
    [][ /\ resp'.op = "get_job" =>
              \A c \in ReadCallers, j \in ReadIdInputs :
                 ( /\ RoleName(c) = "customer"
                   /\ j \in JobIds
                   /\ jobs[j].customer_user_id # c
                   /\ GetJob(c, j) ) =>
                    resp'.outcome = ReadOutcome(c, {})
        /\ resp'.op = "get_job_by_number" =>
              \A c \in ReadCallers, n \in ReadNumberInputs :
                 ( /\ RoleName(c) = "customer"
                   /\ \E j \in JobsByNumber(n) : jobs[j].customer_user_id # c
                   /\ GetJobByNumber(c, n) ) =>
                    resp'.outcome = ReadOutcome(c, {})
      ]_vars

(***************************************************************************)
(* C22.  Whatever read answered (get_job, get_job_by_number, get_jobs), a  *)
(* customer got only jobs whose customer_user_id is the customer's id and  *)
(* a mechanic only jobs that are unassigned or assigned to that mechanic.  *)
(***************************************************************************)
C22_ReadsAreRoleScoped ==
    LET MayView(c, customer_user_id, assigned_mechanic_id) ==
            /\ RoleName(c) = "customer" => customer_user_id = c
            /\ RoleName(c) = "mechanic" => assigned_mechanic_id \in {NoId, c}
    IN  /\ resp.op \in {"get_job", "get_job_by_number"} /\ resp.outcome = "ok" =>
              MayView(resp.caller, jobs[resp.id].customer_user_id,
                      jobs[resp.id].assigned_mechanic_id)
        /\ resp.op = "get_jobs" /\ resp.outcome = "ok" =>
              \A i \in 1..Len(resp.items) :
                 MayView(resp.caller, resp.items[i].customer_user_id,
                         resp.items[i].assigned_mechanic_id)

(***************************************************************************)
(* SpecSku: parts are created and re-labelled with SKUs that differ in     *)
(* letter case only, with an empty SKU and without one.                    *)
(***************************************************************************)
NextSku ==
    \/ \E sku \in {NoText, "", "ab", "Ab", "AB"} :
          CreateSparePart(Admin1, [sku |-> sku, quantity_in_stock |-> 1,
                                   minimum_stock_level |-> 0])
    \/ \E id \in 1..MaxParts, sku \in {NoText, "ab", "AB", "cd"} :
          UpdateSparePart(Admin1, id, [sku |-> sku])
    \/ \E id \in 1..MaxParts : DeleteSparePart(Admin1, id)

SpecSku == Init /\ [][NextSku]_vars

(***************************************************************************)
(* C23.  Every stored SKU is upper-case and no two parts have SKUs that    *)
(* are equal ignoring case (so that the lookup by SKU, which upper-cases   *)
(* its argument, finds a part under any spelling of its SKU).              *)
(***************************************************************************)
C23_SkuUpperCaseUnique ==
    \A i \in PartIds :
        parts[i].sku # NoText =>
            /\ parts[i].sku = Upper(parts[i].sku)
            /\ \A k \in PartIds \ {i} :
                  parts[k].sku # NoText => Upper(parts[k].sku) # Upper(parts[i].sku)

(***************************************************************************)
(* SpecRoleRace: role deletions in flight while the admin creates roles    *)
(* and users register with them.                                           *)
(***************************************************************************)
NextRoleRace ==
    \/ \E n \in {"vip", "temp"} : CreateNewRole(Admin1, n)
    \/ \E p \in 1..MaxCreators, i \in 1..MaxRoleId : DeleteRoleCount(p, Admin1, i)
    \/ \E p \in 1..MaxCreators : DeleteRoleCommit(p)
    \/ \E e \in {"v1@mail", "v2@mail"}, n \in {"vip", "customer"} : CreateNewUser(e, n)

SpecRoleRace == Init /\ [][NextRoleRace]_vars

(***************************************************************************)
(* C28.  In every reachable state, under every interleaving of a role      *)
(* deletion with a registration that assigns the role, every user          *)
(* references a role row that exists.                                      *)
(***************************************************************************)
C28_UsersReferenceExistingRoles ==
    \A u \in UserIds : RoleById(users[u].role_id) # {}

(***************************************************************************)
(* SpecStockRace: stock adjustments in flight on one part, which the admin *)
(* created with two units.                                                 *)
(***************************************************************************)
NextStockRace ==
    \/ /\ parts = <<>>
       /\ CreateSparePart(Admin1, [sku |-> NoText, quantity_in_stock |-> 2,
                                   minimum_stock_level |-> 0])
    \/ \E p \in 1..MaxCreators, c \in {Admin1, Mechanic1}, id \in 1..2,
          d \in {0 - 2, 0 - 1, 1} :
          UpdateStockRead(p, c, id, d)
    \/ \E p \in 1..MaxCreators : UpdateStockCommit(p)

SpecStockRace == Init /\ [][NextStockRace]_vars

(***************************************************************************)
(* C29.  In every reachable state the quantity of the part is the quantity *)
(* it was created with plus the sum of the quantity_change of every        *)
(* update_stock request that answered with success, however the requests   *)
(* interleave.                                                             *)
(***************************************************************************)
C29_NoLostStockUpdate ==
    parts # <<>> =>
        LET done == {p \in 1..MaxCreators : creators[p].pc = "stock_committed"}
            delta == [p \in done |-> creators[p].job_number[2]]
        IN  parts[1].quantity_in_stock = 2 + SumCounts(delta, done)

(***************************************************************************)
(* SpecSearch: the public search by phone over jobs with different phones, *)
(* queried with a stored phone, its 256-prefixed form, a separator, and    *)
(* queries without digits.                                                 *)
(***************************************************************************)
NextSearch ==
    \/ \E d \in ListJobInputs : CreateJob(Admin1, d, Len(jobs))
    \/ \E j \in JobIdInputs, st \in {"READY", "CHECKED_IN"} :
          UpdateJobStatus(Mechanic1, j, st, NoText)
    \/ \E phone \in {<<>>, <<"0", "7">>, <<"0", "-", "7">>, <<"2", "5", "6", "7">>,
                     <<"1">>, <<"9">>, <<"+">>, <<"a">>} :
          SearchJobsByPhone(phone)

SpecSearch == Init /\ [][NextSearch]_vars

(***************************************************************************)
(* C30.  Every job that search_jobs_by_phone returns has a stored          *)
(* customer_phone that contains a non-empty variant of the query: the      *)
(* query itself, the query without separators, the local or 256-prefixed   *)
(* counterpart, or the digits of one of these.                             *)
(***************************************************************************)
C30_SearchReturnsOnlyRelatedJobs ==
    [][ resp'.op = "search_jobs_by_phone" /\ resp'.outcome = "ok" =>
          \A phone \in {<<"0", "7">>, <<"0", "-", "7">>, <<"2", "5", "6", "7">>,
                        <<"1">>, <<"9">>, <<"+">>, <<"a">>} :
             SearchJobsByPhone(phone) =>
                LET ps == PhonesToSearch(phone)
                    variants == ({phone} \cup {ps[i] : i \in 1..Len(ps)}
                                 \cup {DigitsOnly(ps[i]) : i \in 1..Len(ps)}) \ {<<>>}
                    Contains(t, v) == \E a \in 1..Len(t) :
                                         a + Len(v) - 1 <= Len(t)
                                         /\ SubSeq(t, a, a + Len(v) - 1) = v
                IN  \A i \in 1..Len(resp'.items) :
                       \E v \in variants : Contains(resp'.items[i].customer_phone, v)
      ]_vars

====
